---- MODULE Spec2Model ----
(***************************************************************************)
(* News aggregation and AI summarization server: the in-memory article     *)
(* store (server/storage.ts), the provider client (newsService.ts), the    *)
(* summarization service (GeminiService) and the HTTP routes (routes.ts).  *)
(*                                                                         *)
(* JavaScript values: undefined and null are the strings UNDEF and NULL,   *)
(* so that an optional string keeps one type.  An article's source is      *)
(* always a record [id, name]; a null source reads as both fields UNDEF,   *)
(* which is what source?.name and source?.id yield.  Timestamps are small  *)
(* integers (provider contract: publishedAt is a valid ISO date).  The     *)
(* pass-through fields description, content, urlToImage and author are     *)
(* read by no modelled operation except to build a prompt whose answer is  *)
(* the engine's choice, and are left out of the records.                   *)
(***************************************************************************)
EXTENDS Integers, Sequences, FiniteSets, TLC

VARIABLES
    articles,   \* MemStorage.articles: the Map, as its entries in insertion order
    now,        \* the clock read by createArticle (new Date())
    storeCall,  \* the last direct call of the store API and what it returned
    topicCall,  \* the last generateTopicSummary call and what it returned
    clients,    \* per client: the request in flight and the handler's position
    lastResp,   \* the last HTTP response sent, with the request it answers
    engineDown, \* the summarization engine is unavailable: every call of it throws
    voiceCall,  \* the last speech-recognition result and what useVoiceSearch made of it
    home,       \* the Home page: its filters state and the request it issued last
    speech      \* useSpeechRecognition: isListening, recognitionRef and the recognizers made

vars == <<articles, now, storeCall, topicCall, clients, lastResp, engineDown, voiceCall,
          home, speech>>

----------------------------------------------------------------------------
(* Bounds *)

MaxRecords == 3     \* store size reached through the store API
MaxStore == 2       \* store size reached through the routes
MaxBatch == 3       \* articles handed to one generateTopicSummary call
MaxArticles == 2    \* articles in one provider response or one summarize request
MaxSessions == 3    \* SpeechRecognition objects made by startListening

----------------------------------------------------------------------------
(* JavaScript values *)

UNDEF == "<undefined>"
NULL == "<null>"

\* JavaScript truthiness of an optional string
Truthy(s) == s \notin {UNDEF, NULL, ""}

\* a || b
OrElse(a, b) == IF Truthy(a) THEN a ELSE b

Range(s) == {s[i] : i \in 1..Len(s)}

\* Array.prototype.includes
Includes(arr, x) == \E i \in 1..Len(arr) : arr[i] = x

\* Array.prototype.filter is SelectSeq.

----------------------------------------------------------------------------
(* MemStorage: the article store *)

\* Array.from(this.articles.values())
Values(store) == [i \in 1..Len(store) |-> store[i].val]

Keys(store) == {store[i].key : i \in 1..Len(store)}

\* this.articles.get(id): the position of the entry, 0 when there is none
Get(store, id) ==
    IF id \in Keys(store)
    THEN CHOOSE i \in 1..Len(store) : store[i].key = id
    ELSE 0

\* randomUUID(): an id that no entry has
randomUUID(store) == Len(store) + 1

\* b.publishedAt - a.publishedAt: positive when b is to come first
Compare(a, b) == b.publishedAt - a.publishedAt

RECURSIVE InsertSorted(_, _)
\* x put after every element that does not have to come after it
InsertSorted(sorted, x) ==
    IF sorted = <<>> THEN <<x>>
    ELSE IF Compare(Head(sorted), x) > 0
         THEN <<x>> \o sorted
         ELSE <<Head(sorted)>> \o InsertSorted(Tail(sorted), x)

RECURSIVE SortUnstable(_)
\* a sort that reverses the order of equal elements
SortUnstable(s) ==
    IF s = <<>> THEN <<>>
    ELSE LET rest == SortUnstable(Tail(s))
             before == SelectSeq(rest, LAMBDA y : Compare(y, Head(s)) <= 0)
             after == SelectSeq(rest, LAMBDA y : Compare(y, Head(s)) > 0)
         IN  before \o <<Head(s)>> \o after

RECURSIVE Sort(_)
\* Array.prototype.sort with Compare: stable (ECMAScript 2019), newest first
Sort(s) ==
    IF s = <<>> THEN <<>>
    ELSE InsertSorted(Sort(SubSeq(s, 1, Len(s) - 1)), s[Len(s)])

\* the source filter of getArticles: includes(source?.name || source?.id)
SourceMatches(sources, source) ==
    Includes(sources, OrElse(source.name, source.id))

\* MemStorage.getArticles(filters)
getArticles(store, filters) ==
    LET all == Values(store)
        byCountry == IF Truthy(filters.country)
                     THEN SelectSeq(all, LAMBDA a : a.country = filters.country)
                     ELSE all
        byCategory == IF Truthy(filters.category)
                      THEN SelectSeq(byCountry, LAMBDA a : a.category = filters.category)
                      ELSE byCountry
        bySources == IF Len(filters.sources) > 0
                     THEN SelectSeq(byCategory,
                                 LAMBDA a : SourceMatches(filters.sources, a.source))
                     ELSE byCategory
    IN  Sort(bySources)

\* getArticles() without filters
NoFilters == [country |-> UNDEF, category |-> UNDEF, sources |-> <<>>]

\* the record createArticle builds: {...insertArticle, id, createdAt: new Date()}
NewArticle(draft, id, time) ==
    [id |-> id, title |-> draft.title, url |-> draft.url,
     publishedAt |-> draft.publishedAt, source |-> draft.source,
     category |-> draft.category, country |-> draft.country,
     aiSummary |-> draft.aiSummary, createdAt |-> time]

\* MemStorage.createArticle: the store after this.articles.set(id, article)
createArticle(store, draft, time) ==
    LET id == randomUUID(store)
    IN  Append(store, [key |-> id, val |-> NewArticle(draft, id, time)])

\* a merge in which the existing fields win: {...updates, ...existing}
MergeKeepingExisting(existing, updates) ==
    [f \in DOMAIN existing |-> existing[f]]

\* {...existing, ...updates}: updates is a record of some of the fields
Merge(existing, updates) ==
    [f \in DOMAIN existing |->
        IF f \in DOMAIN updates THEN updates[f] ELSE existing[f]]

\* an update that stores the merged record as one more entry of the same key
updateArticleAppending(store, id, updates) ==
    LET i == Get(store, id)
    IN  Append(store, [key |-> id, val |-> Merge(store[i].val, updates)])

\* MemStorage.updateArticle on a known id: the store after articles.set(id, updated)
updateArticle(store, id, updates) ==
    LET i == Get(store, id)
    IN  [store EXCEPT ![i].val = Merge(store[i].val, updates)]

----------------------------------------------------------------------------
(* GeminiService: the summarization engine and the calls built on it *)

\* what one ai.models.generateContent call does: it throws, or it returns a
\* response whose text is absent, empty, blank or a summary with or without
\* surrounding white space
EngineOutcomes ==
    { [ok |-> FALSE, text |-> UNDEF] }
    \cup [ok : {TRUE}, text : {UNDEF, "", "  ", " S1 "}]

\* the outcomes the engine can have now
OutcomesNow == IF engineDown THEN {o \in EngineOutcomes : ~o.ok} ELSE EngineOutcomes

RECURSIVE TrimStart(_)
TrimStart(text) ==
    IF text # "" /\ SubSeq(text, 1, 1) = " "
    THEN TrimStart(SubSeq(text, 2, Len(text)))
    ELSE text

RECURSIVE TrimEnd(_)
TrimEnd(text) ==
    IF text # "" /\ SubSeq(text, Len(text), Len(text)) = " "
    THEN TrimEnd(SubSeq(text, 1, Len(text) - 1))
    ELSE text

\* String.prototype.trim (the white space of the model is the space)
Trim(text) == TrimEnd(TrimStart(text))

\* a response.text taken as it comes, white space included
TrimmedTextUntrimmed(text) == text

\* response.text?.trim()
TrimmedText(text) == IF text = UNDEF THEN UNDEF ELSE Trim(text)

FallbackSummary == "Summary unavailable due to processing error"
NoSummary == "Unable to generate summary"
TopicFallback == "Unable to generate topic summary due to processing error"
NoTopicSummary == "Unable to generate topic summary"

\* a summarizeArticle whose catch returns the text meant for an empty response
summarizeArticleOtherText(outcome) ==
    IF outcome.ok
    THEN OrElse(TrimmedText(outcome.text), NoSummary)
    ELSE NoSummary

\* GeminiService.summarizeArticle: the text it resolves to
summarizeArticle(outcome) ==
    IF outcome.ok
    THEN OrElse(TrimmedText(outcome.text), NoSummary)
    ELSE FallbackSummary

\* articles.map(article => ({title, url, source: source?.name || 'Unknown Source'}))
SourceLinks(arts) ==
    [i \in 1..Len(arts) |->
        [title |-> arts[i].title, url |-> arts[i].url,
         source |-> OrElse(arts[i].source.name, "Unknown Source")]]

\* a generateTopicSummary that returns no links when the engine fails
TopicSummaryLinksLost(topic, arts, outcome) ==
    IF outcome.ok
    THEN [summary |-> OrElse(TrimmedText(outcome.text), NoTopicSummary),
          sourceLinks |-> SourceLinks(arts)]
    ELSE [summary |-> TopicFallback, sourceLinks |-> <<>>]

\* GeminiService.generateTopicSummary: what it resolves to
generateTopicSummary(topic, arts, outcome) ==
    IF outcome.ok
    THEN [summary |-> OrElse(TrimmedText(outcome.text), NoTopicSummary),
          sourceLinks |-> SourceLinks(arts)]
    ELSE [summary |-> TopicFallback, sourceLinks |-> SourceLinks(arts)]

----------------------------------------------------------------------------
(* The store API called directly *)

Source(id, name) == [id |-> id, name |-> name]

\* drafts handed to createArticle
Drafts ==
    { [title |-> "t1", url |-> "u1", publishedAt |-> 2,
       source |-> Source("bbc-news", "BBC News"),
       category |-> NULL, country |-> "us", aiSummary |-> NULL],
      [title |-> "t2", url |-> "u2", publishedAt |-> 1,
       source |-> Source(NULL, "CNN"),
       category |-> "tech", country |-> "us", aiSummary |-> NULL],
      [title |-> "t3", url |-> "u1", publishedAt |-> 2,
       source |-> Source("cnn", ""),
       category |-> "tech", country |-> "gb", aiSummary |-> NULL],
      [title |-> "t4", url |-> "u4", publishedAt |-> 3,
       source |-> Source("bbc-news", "CNN"),
       category |-> NULL, country |-> NULL, aiSummary |-> NULL] }

\* filters handed to getArticles
StoreFilters ==
    [country : {UNDEF, "", "us", "gb"},
     category : {UNDEF, "tech"},
     sources : {<<>>, <<"bbc-news">>, <<"CNN", "cnn">>}]

\* partial records handed to updateArticle
Partials ==
    { [aiSummary |-> "X"] }

Idle == [op |-> "none"]

StoreCreate(draft) ==
    /\ Len(articles) < MaxRecords
    /\ articles' = createArticle(articles, draft, now)
    /\ now' = now + 1
    /\ storeCall' = [op |-> "create", draft |-> draft,
                     result |-> articles'[Len(articles')].val]
    /\ UNCHANGED <<topicCall, clients, lastResp, engineDown, voiceCall, home, speech>>

StoreUpdate(id, updates) ==
    /\ IF Get(articles, id) = 0
       THEN /\ storeCall' = [op |-> "update", id |-> id, updates |-> updates,
                             before |-> articles, error |-> "not found"]
            /\ UNCHANGED articles
       ELSE /\ articles' = updateArticle(articles, id, updates)
            /\ storeCall' = [op |-> "update", id |-> id, updates |-> updates,
                             before |-> articles, error |-> "",
                             result |-> Merge(articles[Get(articles, id)].val, updates)]
    /\ UNCHANGED <<now, topicCall, clients, lastResp, engineDown, voiceCall, home, speech>>

StoreGetArticles(filters) ==
    /\ storeCall' = [op |-> "getArticles", filters |-> filters,
                     result |-> getArticles(articles, filters)]
    /\ UNCHANGED <<articles, now, topicCall, clients, lastResp, engineDown, voiceCall, home, speech>>

Clients == {"c1", "c2"}

\* no request issued yet
NoRequest == [route |-> "none"]

\* Home: useState<NewsFilters>({ pageSize: 20, page: 1 }); the header's
\* searchQuery state starts as filters.query || ""
HomeInit ==
    [filters |-> [q |-> UNDEF, query |-> UNDEF, pageSize |-> 20, page |-> 1],
     searchQuery |-> "", request |-> NoRequest]

\* useSpeechRecognition: useState(false), useRef(null), no recognizer made;
\* last is the operation or callback that ran last
SpeechInit == [isListening |-> FALSE, ref |-> 0, sessions |-> <<>>, last |-> "none"]

Init ==
    /\ articles = <<>>
    /\ now = 1
    /\ storeCall = Idle
    /\ topicCall = Idle
    /\ clients = [c \in Clients |-> [pc |-> "idle"]]
    /\ lastResp = [route |-> "none", status |-> 0]
    /\ engineDown \in BOOLEAN
    /\ voiceCall = Idle
    /\ home = HomeInit
    /\ speech = SpeechInit

\* the initial state where the engine is up: used where no step calls the engine
InitEngineUp == Init /\ ~engineDown

NextStore ==
    \/ \E draft \in Drafts : StoreCreate(draft)
    \/ \E id \in 1..(MaxRecords + 1), updates \in Partials : StoreUpdate(id, updates)
    \/ \E filters \in StoreFilters : StoreGetArticles(filters)

SpecStore == InitEngineUp /\ [][NextStore]_vars

\* the store API called with any Partial<Article>: a summary, another summary,
\* a summary taken away, and an id and a createdAt of the caller's choosing
AnyPartials ==
    { [aiSummary |-> "X"], [aiSummary |-> "Y"], [aiSummary |-> NULL],
      [id |-> 0, createdAt |-> 0] }

\* one draft: the records differ in what creation and the updates gave them
OneDraft == {d \in Drafts : d.title = "t1"}

NextUpdate ==
    \/ \E draft \in OneDraft : StoreCreate(draft)
    \/ \E id \in 1..(MaxRecords + 1), updates \in AnyPartials : StoreUpdate(id, updates)

SpecUpdate == InitEngineUp /\ [][NextUpdate]_vars

----------------------------------------------------------------------------
(* generateTopicSummary called on a list of articles *)

\* articles handed to generateTopicSummary: a source with a name, one without
\* a name, one with an empty name, and a null source
TopicArticles ==
    { [title |-> "t1", url |-> "u1", source |-> Source("bbc-news", "BBC News")],
      [title |-> "t2", url |-> "u2", source |-> Source("cnn", UNDEF)],
      [title |-> "t3", url |-> "u1", source |-> Source(NULL, "")],
      [title |-> "t4", url |-> "u4", source |-> Source(UNDEF, UNDEF)] }

SeqsUpTo(S, n) == UNION {[1..k -> S] : k \in 0..n}

\* a generateTopicSummary that asks the engine once per article
TopicSummaryFannedOut(topic, arts, outcome) ==
    /\ topicCall' = [op |-> "topic", topic |-> topic, articles |-> arts,
                     outcome |-> outcome, engineCalls |-> Len(arts),
                     result |-> generateTopicSummary(topic, arts, outcome)]
    /\ UNCHANGED <<articles, now, storeCall, clients, lastResp, engineDown, voiceCall, home, speech>>

\* generateTopicSummary(topic, articles): one prompt over all the articles,
\* one generateContent call
TopicSummary(topic, arts, outcome) ==
    /\ topicCall' = [op |-> "topic", topic |-> topic, articles |-> arts,
                     outcome |-> outcome, engineCalls |-> 1,
                     result |-> generateTopicSummary(topic, arts, outcome)]
    /\ UNCHANGED <<articles, now, storeCall, clients, lastResp, engineDown, voiceCall, home, speech>>

NextTopic ==
    \E arts \in SeqsUpTo(TopicArticles, MaxBatch), outcome \in OutcomesNow :
        TopicSummary("inflation", arts, outcome)

SpecTopic == Init /\ [][NextTopic]_vars

----------------------------------------------------------------------------
(* newsFiltersSchema: the query of GET /api/news and GET /api/news/search *)

\* A raw query (req.query).  Absent parameters are UNDEF.  sources is absent,
\* one string (given as its pieces between commas) or an array of strings.
\* The parameters from and to are passed through unread and are left out.
NoSources == [form |-> "none", items |-> <<>>]
SourcesString(pieces) == [form |-> "string", items |-> pieces]
SourcesArray(items) == [form |-> "array", items |-> items]

EmptyQuery ==
    [country |-> UNDEF, category |-> UNDEF, sources |-> NoSources, q |-> UNDEF,
     sortBy |-> UNDEF, pageSize |-> UNDEF, page |-> UNDEF]

SortByEnum == {"relevancy", "popularity", "publishedAt"}

\* Number(input) of z.coerce.number() on the strings of the model
Number(raw) ==
    CASE raw = "0" -> [nan |-> FALSE, n |-> 0]
      [] raw = "1" -> [nan |-> FALSE, n |-> 1]
      [] raw = "2" -> [nan |-> FALSE, n |-> 2]
      [] raw = "5" -> [nan |-> FALSE, n |-> 5]
      [] raw = "20" -> [nan |-> FALSE, n |-> 20]
      [] raw = "100" -> [nan |-> FALSE, n |-> 100]
      [] raw = "101" -> [nan |-> FALSE, n |-> 101]
      [] raw = "" -> [nan |-> FALSE, n |-> 0]
      [] OTHER -> [nan |-> TRUE, n |-> 0]

NotGiven == [given |-> FALSE, n |-> 0]

MinPageSize == 1
MaxPageSize == 100
MinPage == 1

\* z.coerce.number().min(lo) raises an issue (NaN is no number at all)
TooSmall(raw, lo) == raw # UNDEF /\ (Number(raw).nan \/ Number(raw).n < lo)

\* z.coerce.number().max(hi) raises an issue
TooLarge(raw, hi) == raw # UNDEF /\ ~Number(raw).nan /\ Number(raw).n > hi

\* the parsed value of an optional number that passed
ParsedNumber(raw) ==
    IF raw = UNDEF THEN NotGiven ELSE [given |-> TRUE, n |-> Number(raw).n]

\* sources: z.union([z.array(z.string()),
\*                   z.string().transform(val => val.split(',').filter(s => s.trim() !== ''))])
ParsedSources(raw) ==
    CASE raw.form = "none" -> [given |-> FALSE, items |-> <<>>]
      [] raw.form = "array" -> [given |-> TRUE, items |-> raw.items]
      [] raw.form = "string" ->
            [given |-> TRUE, items |-> SelectSeq(raw.items, LAMBDA x : Trim(x) # "")]

\* the paths of the issues newsFiltersSchema.parse raises on a query
Issues(query) ==
    {path \in {"sortBy", "pageSize", "page"} :
        \/ path = "sortBy" /\ query.sortBy \notin SortByEnum \cup {UNDEF}
        \/ path = "pageSize" /\ \/ TooSmall(query.pageSize, MinPageSize)
                                \/ TooLarge(query.pageSize, MaxPageSize)
        \/ path = "page" /\ TooSmall(query.page, MinPage)}

\* a number clamped into its range instead of an issue raised
ClampedNumber(raw, lo, hi) ==
    IF raw = UNDEF THEN NotGiven
    ELSE LET n == Number(raw).n
         IN  [given |-> TRUE, n |-> IF n < lo THEN lo ELSE IF n > hi THEN hi ELSE n]

\* a schema that clamps and drops what newsFiltersSchema rejects
ParseFiltersClamping(query) ==
    [ok |-> TRUE, issues |-> {},
     filters |-> [country |-> query.country, category |-> query.category,
                  sources |-> ParsedSources(query.sources), q |-> query.q,
                  sortBy |-> IF query.sortBy \in SortByEnum THEN query.sortBy ELSE UNDEF,
                  pageSize |-> ClampedNumber(query.pageSize, MinPageSize, MaxPageSize),
                  page |-> ClampedNumber(query.page, MinPage, MaxPageSize)]]

\* newsFiltersSchema.parse(req.query): the filters, or the ZodError's issues
ParseFilters(query) ==
    IF Issues(query) # {}
    THEN [ok |-> FALSE, issues |-> Issues(query), filters |-> UNDEF]
    ELSE [ok |-> TRUE, issues |-> {},
          filters |-> [country |-> query.country, category |-> query.category,
                       sources |-> ParsedSources(query.sources), q |-> query.q,
                       sortBy |-> query.sortBy,
                       pageSize |-> ParsedNumber(query.pageSize),
                       page |-> ParsedNumber(query.page)]]

----------------------------------------------------------------------------
(* NewsService: the request sent to the provider *)

\* a parameter that is not set
Unset == [set |-> FALSE, items |-> <<>>]
UnsetNumber == [set |-> FALSE, n |-> 0]

\* if (filters.sources && filters.sources.length > 0) params.set('sources', join(','))
SourcesParam(sources) ==
    IF sources.given /\ Len(sources.items) > 0
    THEN [set |-> TRUE, items |-> sources.items]
    ELSE Unset

\* if (filters.pageSize) params.set('pageSize', filters.pageSize.toString())
NumberParam(number) ==
    IF number.given /\ number.n # 0 THEN [set |-> TRUE, n |-> number.n] ELSE UnsetNumber

\* if (filters.x) params.set('x', filters.x)
StringParam(value) == IF Truthy(value) THEN value ELSE UNDEF

\* a fetchTopHeadlines that sends no country when the filters have none
HeadlinesParamsNoDefault(filters) ==
    [endpoint |-> "top-headlines",
     country |-> StringParam(filters.country),
     category |-> StringParam(filters.category),
     sources |-> SourcesParam(filters.sources),
     q |-> StringParam(filters.q),
     sortBy |-> UNDEF,
     pageSize |-> NumberParam(filters.pageSize),
     page |-> NumberParam(filters.page)]

\* NewsService.fetchTopHeadlines: the URLSearchParams it builds
HeadlinesParams(filters) ==
    [endpoint |-> "top-headlines",
     country |-> IF ~filters.sources.given /\ ~Truthy(filters.country)
                 THEN "us"
                 ELSE StringParam(filters.country),
     category |-> StringParam(filters.category),
     sources |-> SourcesParam(filters.sources),
     q |-> StringParam(filters.q),
     sortBy |-> UNDEF,
     pageSize |-> NumberParam(filters.pageSize),
     page |-> NumberParam(filters.page)]

\* NewsService.searchEverything: the URLSearchParams it builds
SearchParams(filters) ==
    [endpoint |-> "everything",
     country |-> UNDEF,
     category |-> UNDEF,
     sources |-> SourcesParam(filters.sources),
     q |-> IF ~Truthy(filters.q)
              /\ (~filters.sources.given \/ Len(filters.sources.items) = 0)
           THEN "technology"
           ELSE StringParam(filters.q),
     sortBy |-> StringParam(filters.sortBy),
     pageSize |-> NumberParam(filters.pageSize),
     page |-> NumberParam(filters.page)]

Routes == {"news", "search"}

ProviderParams(route, filters) ==
    IF route = "news" THEN HeadlinesParams(filters) ELSE SearchParams(filters)

\* articles of the provider's catalogue (NewsAPIArticle); two share a url
RawArticles ==
    { [title |-> "t1", url |-> "u1", publishedAt |-> "2024-01-02T00:00:00Z",
       source |-> Source("bbc-news", "BBC News")],
      [title |-> "t2", url |-> "u1", publishedAt |-> "2024-01-01T00:00:00Z",
       source |-> Source(NULL, "CNN")] }

\* new Date(apiArticle.publishedAt) on the provider's ISO strings
ParseDate(iso) ==
    CASE iso = "2024-01-01T00:00:00Z" -> 1
      [] iso = "2024-01-02T00:00:00Z" -> 2
      [] iso = "2024-01-03T00:00:00Z" -> 3

\* a JSON null where the provider's response should hold an article: the
\* response is returned as response.json() gives it, unvalidated
NullItem == [null |-> TRUE]

\* the items whose fields the map callback can read
WellFormed(apiArticles) == SelectSeq(apiArticles, LAMBDA a : a # NullItem)

\* what the provider call can come to: a NewsAPIResponse, a non-success
\* status, or a transport error (fetch rejects)
ProviderResponses ==
    { [ok |-> TRUE, failure |-> "", status |-> "ok",
       totalResults |-> Len(arts) + more, articles |-> arts] :
          arts \in SeqsUpTo(RawArticles, MaxArticles), more \in {0, 1} }
    \cup { [ok |-> FALSE, failure |-> f, status |-> "error",
            totalResults |-> 0, articles |-> <<>>] :
          f \in {"News API error (401)", "fetch failed"} }

----------------------------------------------------------------------------
(* The routes: one handler per request, suspended while it awaits the      *)
(* provider or the engine.  Both services are taken to be configured       *)
(* (NEWS_API_KEY and GEMINI_API_KEY set).                                   *)

\* the provider or the engine was not called
NotCalled == [ok |-> FALSE, failure |-> "not called"]

\* res.status(status).json(body), recorded with the request it answers, what
\* the external service answered to the handler's calls (the last of them),
\* and the store as the handler's last step found it and left it
Response(route, status, body, request, calls, upstream, before, after) ==
    [route |-> route, status |-> status, body |-> body, request |-> request,
     calls |-> calls, upstream |-> upstream, before |-> before, after |-> after]

\* { message: error.message }
ErrorBody(text, issues) == [message |-> [text |-> text, issues |-> issues]]

\* a draft tagged with what the provider was asked for: the country sent to
\* the provider, "us" when the request named none
DraftOfProviderTags(apiArticle, filters) ==
    [title |-> apiArticle.title, url |-> apiArticle.url,
     publishedAt |-> ParseDate(apiArticle.publishedAt),
     source |-> apiArticle.source,
     category |-> OrElse(filters.category, NULL),
     country |-> OrElse(filters.country, "us"),
     aiSummary |-> NULL]

\* the draft GET /api/news and GET /api/news/search hand to createArticle
DraftOf(apiArticle, filters) ==
    [title |-> apiArticle.title, url |-> apiArticle.url,
     publishedAt |-> ParseDate(apiArticle.publishedAt),
     source |-> apiArticle.source,
     category |-> OrElse(filters.category, NULL),
     country |-> OrElse(filters.country, NULL),
     aiSummary |-> NULL]

\* the position of the first stored record with the url, 0 when there is none
PositionOfUrl(store, url) ==
    IF \E k \in 1..Len(store) : store[k].val.url = url
    THEN CHOOSE k \in 1..Len(store) : store[k].val.url = url
    ELSE 0

RECURSIVE CreateAllUpserting(_, _, _, _)
\* a re-fetch that replaces the stored record of the same url by the fresh one
CreateAllUpserting(store, apiArticles, filters, time) ==
    IF apiArticles = <<>> THEN store
    ELSE IF Head(apiArticles) = NullItem
    THEN CreateAllUpserting(store, Tail(apiArticles), filters, time)
    ELSE LET draft == DraftOf(Head(apiArticles), filters)
             k == PositionOfUrl(store, draft.url)
             next == IF k = 0
                     THEN createArticle(store, draft, time)
                     ELSE [store EXCEPT ![k].val = NewArticle(draft, store[k].key, time)]
         IN  CreateAllUpserting(next, Tail(apiArticles), filters, time + 1)

RECURSIVE CreateAllDistinctUrls(_, _, _, _)
\* a fetch that stores no article whose url a stored record already has
CreateAllDistinctUrls(store, apiArticles, filters, time) ==
    IF apiArticles = <<>> THEN store
    ELSE IF Head(apiArticles) = NullItem
            \/ PositionOfUrl(store, Head(apiArticles).url) # 0
    THEN CreateAllDistinctUrls(store, Tail(apiArticles), filters, time)
    ELSE CreateAllDistinctUrls(createArticle(store, DraftOf(Head(apiArticles), filters), time),
                               Tail(apiArticles), filters, time + 1)

RECURSIVE CreateAll(_, _, _, _)
\* newsResponse.articles.map(async apiArticle => storage.createArticle(...)):
\* the calls run one after the other, in the order of the response; on a null
\* item the callback throws on apiArticle.title before it calls createArticle,
\* which rejects that item's promise and lets map go on to the next item
CreateAll(store, apiArticles, filters, time) ==
    IF apiArticles = <<>> THEN store
    ELSE IF Head(apiArticles) = NullItem
    THEN CreateAll(store, Tail(apiArticles), filters, time)
    ELSE CreateAll(createArticle(store, DraftOf(Head(apiArticles), filters), time),
                   Tail(apiArticles), filters, time + 1)

\* a body that counts the articles at hand instead of the provider's total
NewsBodyLocalCount(newsResponse, created) ==
    [status |-> newsResponse.status, totalResults |-> Len(created),
     articles |-> created]

\* { status: newsResponse.status, totalResults: newsResponse.totalResults, articles }
NewsBody(newsResponse, created) ==
    [status |-> newsResponse.status, totalResults |-> newsResponse.totalResults,
     articles |-> created]

\* GET /api/news and GET /api/news/search, up to the provider call
GetNews(c, route, query) ==
    /\ clients[c].pc = "idle"
    /\ LET parsed == ParseFilters(query)
       IN  IF ~parsed.ok
           THEN /\ lastResp' = Response(route, 500, ErrorBody("ZodError", parsed.issues),
                                        query, 0, NotCalled, articles, articles)
                /\ UNCHANGED clients
           ELSE /\ clients' = [clients EXCEPT ![c] =
                                  [pc |-> "provider", route |-> route, query |-> query,
                                   filters |-> parsed.filters,
                                   params |-> ProviderParams(route, parsed.filters),
                                   calls |-> 1]]
                /\ UNCHANGED lastResp
    /\ UNCHANGED <<articles, now, storeCall, topicCall, engineDown, voiceCall, home, speech>>

\* the provider answers with a NewsAPIResponse: its articles are stored and
\* returned; when the callback threw on an item, Promise.all rejects and the
\* route's catch answers 500
ProviderSucceeds(c, response) ==
    /\ clients[c].pc = "provider"
    /\ response.ok
    /\ Len(articles) + Len(WellFormed(response.articles)) <= MaxStore
    /\ articles' = CreateAll(articles, response.articles, clients[c].filters, now)
    /\ now' = now + Len(WellFormed(response.articles))
    /\ IF WellFormed(response.articles) = response.articles
       THEN lastResp' = Response(clients[c].route, 200,
                                 NewsBody(response,
                                          SubSeq(Values(articles'), Len(articles) + 1,
                                                 Len(articles'))),
                                 clients[c].query, clients[c].calls, response, articles,
                                 articles')
       ELSE lastResp' = Response(clients[c].route, 500,
                                 ErrorBody("Cannot read properties of null", {}),
                                 clients[c].query, clients[c].calls, response, articles,
                                 articles')
    /\ clients' = [clients EXCEPT ![c] = [pc |-> "idle"]]
    /\ UNCHANGED <<storeCall, topicCall, engineDown, voiceCall, home, speech>>

\* a handler that calls the provider once more when the call has failed
ProviderFailsRetrying(c, response) ==
    /\ clients[c].pc = "provider"
    /\ ~response.ok
    /\ IF clients[c].calls < 2
       THEN /\ clients' = [clients EXCEPT ![c].calls = @ + 1]
            /\ UNCHANGED lastResp
       ELSE /\ clients' = [clients EXCEPT ![c] = [pc |-> "idle"]]
            /\ lastResp' = Response(clients[c].route, 500,
                                    ErrorBody(response.failure, {}),
                                    clients[c].query, clients[c].calls, response, articles,
                                    articles)
    /\ UNCHANGED <<articles, now, storeCall, topicCall, engineDown, voiceCall, home, speech>>

\* the provider call fails (response.ok false, or fetch rejects): the error
\* is thrown into the route's catch
ProviderFails(c, response) ==
    /\ clients[c].pc = "provider"
    /\ ~response.ok
    /\ lastResp' = Response(clients[c].route, 500, ErrorBody(response.failure, {}),
                            clients[c].query, clients[c].calls, response, articles,
                            articles)
    /\ clients' = [clients EXCEPT ![c] = [pc |-> "idle"]]
    /\ UNCHANGED <<articles, now, storeCall, topicCall, engineDown, voiceCall, home, speech>>

\* articles.find(a => a.id === id) on storage.getArticles(): whether it finds one
Found(store, id) ==
    \E i \in 1..Len(getArticles(store, NoFilters)) :
        getArticles(store, NoFilters)[i].id = id

\* a handler that summarizes without looking the article up
SummarizeArticleUnchecked(c, id) ==
    /\ clients[c].pc = "idle"
    /\ clients' = [clients EXCEPT ![c] = [pc |-> "engine", id |-> id, calls |-> 1]]
    /\ UNCHANGED <<articles, now, storeCall, topicCall, engineDown, lastResp, voiceCall, home, speech>>

\* POST /api/summarize-article/:id, up to the engine call
SummarizeArticle(c, id) ==
    /\ clients[c].pc = "idle"
    /\ IF ~Found(articles, id)
       THEN /\ lastResp' = Response("summarize", 404, ErrorBody("Article not found", {}),
                                    id, 0, NotCalled, articles, articles)
            /\ UNCHANGED clients
       ELSE /\ clients' = [clients EXCEPT ![c] = [pc |-> "engine", id |-> id, calls |-> 1]]
            /\ UNCHANGED lastResp
    /\ UNCHANGED <<articles, now, storeCall, topicCall, engineDown, voiceCall, home, speech>>

\* what geminiService.summarizeArticle answers to the route, always a text,
\* and what the engine had answered to it
Answered(summary, outcome) ==
    [ok |-> TRUE, failure |-> "", text |-> summary, engine |-> outcome]

\* a handler that writes its summary into every stored record
EngineRespondsStampingAll(c, outcome) ==
    /\ clients[c].pc = "engine"
    /\ LET id == clients[c].id
           summary == summarizeArticle(outcome)
       IN  /\ articles' = [k \in 1..Len(articles) |->
                              [articles[k] EXCEPT !.val.aiSummary = summary]]
           /\ clients' = [clients EXCEPT ![c] =
                             [pc |-> "respond", id |-> id, calls |-> clients[c].calls,
                              summary |-> summary, outcome |-> outcome,
                              updatedArticle |-> articles'[Get(articles, id)].val]]
           /\ UNCHANGED lastResp
    /\ UNCHANGED <<now, storeCall, topicCall, engineDown, voiceCall, home, speech>>

\* the engine call of summarizeArticle settles and storage.updateArticle runs;
\* the handler then awaits updateArticle's promise with the updated record in hand
EngineResponds(c, outcome) ==
    /\ clients[c].pc = "engine"
    /\ LET id == clients[c].id
           summary == summarizeArticle(outcome)
       IN  IF Get(articles, id) = 0
           THEN /\ lastResp' = Response("summarize", 500,
                                        ErrorBody("Article with id not found", {}),
                                        id, clients[c].calls, Answered(summary, outcome), articles,
                                        articles)
                /\ clients' = [clients EXCEPT ![c] = [pc |-> "idle"]]
                /\ UNCHANGED articles
           ELSE /\ articles' = updateArticle(articles, id, [aiSummary |-> summary])
                /\ clients' = [clients EXCEPT ![c] =
                                  [pc |-> "respond", id |-> id, calls |-> clients[c].calls,
                                   summary |-> summary, outcome |-> outcome,
                                   updatedArticle |-> articles'[Get(articles, id)].val]]
                /\ UNCHANGED lastResp
    /\ UNCHANGED <<now, storeCall, topicCall, engineDown, voiceCall, home, speech>>

\* a handler that answers with the record the store holds when it answers
SummarizeRespondRereading(c) ==
    /\ clients[c].pc = "respond"
    /\ lastResp' = Response("summarize", 200,
                            [article |-> articles[Get(articles, clients[c].id)].val,
                             summary |-> clients[c].summary],
                            clients[c].id, clients[c].calls,
                            Answered(clients[c].summary, clients[c].outcome),
                            articles, articles)
    /\ clients' = [clients EXCEPT ![c] = [pc |-> "idle"]]
    /\ UNCHANGED <<articles, now, storeCall, topicCall, engineDown, voiceCall, home, speech>>

\* res.json({ article: updatedArticle, summary }), once the await of
\* updateArticle resumes: other handlers may have run in between
SummarizeRespond(c) ==
    /\ clients[c].pc = "respond"
    /\ lastResp' = Response("summarize", 200,
                            [article |-> clients[c].updatedArticle,
                             summary |-> clients[c].summary],
                            clients[c].id, clients[c].calls,
                            Answered(clients[c].summary, clients[c].outcome),
                            articles, articles)
    /\ clients' = [clients EXCEPT ![c] = [pc |-> "idle"]]
    /\ UNCHANGED <<articles, now, storeCall, topicCall, engineDown, voiceCall, home, speech>>

\* the queries of the model: valid ones and ones with a parameter out of range
Queries ==
    { EmptyQuery,
      [EmptyQuery EXCEPT !.country = "gb", !.category = "tech", !.q = "ai",
                         !.sortBy = "publishedAt", !.pageSize = "5", !.page = "2"],
      [EmptyQuery EXCEPT !.sources = SourcesString(<<"">>)],
      [EmptyQuery EXCEPT !.sources = SourcesString(<<"bbc-news", "  ">>), !.country = ""],
      [EmptyQuery EXCEPT !.pageSize = "0"],
      [EmptyQuery EXCEPT !.pageSize = "101", !.country = "gb"],
      [EmptyQuery EXCEPT !.pageSize = "abc"],
      [EmptyQuery EXCEPT !.page = "0", !.pageSize = "100"],
      [EmptyQuery EXCEPT !.sortBy = "bogus", !.q = "ai"] }

\* the queries and the provider responses used where the summaries are the
\* subject: one valid and one invalid query, responses of one kind of article
FewQueries ==
    { EmptyQuery, [EmptyQuery EXCEPT !.pageSize = "0"] }

FewResponses ==
    {r \in ProviderResponses :
        /\ r.ok => r.totalResults = Len(r.articles)
        /\ \A i \in 1..Len(r.articles) : r.articles[i].title = "t1"
        /\ r.failure # "fetch failed"}

NextNews ==
    \/ \E c \in Clients, route \in Routes, query \in Queries : GetNews(c, route, query)
    \/ \E c \in Clients, response \in ProviderResponses : ProviderSucceeds(c, response)
    \/ \E c \in Clients, response \in ProviderResponses : ProviderFails(c, response)

SpecNews == InitEngineUp /\ [][NextNews]_vars

\* provider responses in which a null can stand in place of an article
MalformedResponses ==
    { [ok |-> TRUE, failure |-> "", status |-> "ok",
       totalResults |-> Len(arts), articles |-> arts] :
          arts \in SeqsUpTo(RawArticles \cup {NullItem}, MaxArticles) }

NextMalformed ==
    \/ \E c \in Clients, route \in Routes : GetNews(c, route, EmptyQuery)
    \/ \E c \in Clients, response \in MalformedResponses : ProviderSucceeds(c, response)

SpecMalformed == InitEngineUp /\ [][NextMalformed]_vars

\* headline requests with and without a country, and the store read by country
TaggedQueries == {EmptyQuery, [EmptyQuery EXCEPT !.country = "gb"]}

CountryFilters == [country : {"us", "gb"}, category : {UNDEF}, sources : {<<>>}]

NextTagged ==
    \/ \E c \in Clients, query \in TaggedQueries : GetNews(c, "news", query)
    \/ \E c \in Clients, response \in FewResponses : ProviderSucceeds(c, response)
    \/ \E filters \in CountryFilters : StoreGetArticles(filters)

SpecTagged == InitEngineUp /\ [][NextTagged]_vars

\* the engine outcomes used where the blank responses are not the subject
FewOutcomes == {o \in OutcomesNow : o.text \notin {"", "  "}}

\* the engine outcomes with a text, and the throw
TextOutcomes == {o \in OutcomesNow : ~o.ok \/ o.text # UNDEF}

\* one response of one article
OneResponse == {r \in FewResponses : r.ok /\ Len(r.articles) = 1}

NextSummarize ==
    \/ \E c \in Clients : GetNews(c, "news", EmptyQuery)
    \/ \E c \in Clients, response \in OneResponse : ProviderSucceeds(c, response)
    \/ \E c \in Clients, id \in 1..(MaxStore + 1) : SummarizeArticle(c, id)
    \/ \E c \in Clients, outcome \in TextOutcomes : EngineResponds(c, outcome)
    \/ \E c \in Clients : SummarizeRespond(c)

SpecSummarize == InitEngineUp /\ [][NextSummarize]_vars

Next ==
    \/ \E c \in Clients, route \in Routes, query \in FewQueries : GetNews(c, route, query)
    \/ \E c \in Clients, response \in FewResponses : ProviderSucceeds(c, response)
    \/ \E c \in Clients, response \in FewResponses : ProviderFails(c, response)
    \/ \E c \in Clients, id \in 1..(MaxStore + 1) : SummarizeArticle(c, id)
    \/ \E c \in Clients, outcome \in FewOutcomes : EngineResponds(c, outcome)
    \/ \E c \in Clients : SummarizeRespond(c)

Spec == Init /\ [][Next]_vars

\* summarizeRequestSchema.parse(req.body) passes: every article has a title
\* and a content, and summaryLength is absent or one of the three
ValidSummarizeRequest(body) ==
    /\ \A i \in 1..Len(body.articles) :
          body.articles[i].title # UNDEF /\ body.articles[i].content # UNDEF
    /\ body.summaryLength \in {UNDEF, "short", "medium", "long"}

\* what generateContent does on the prompt of an article: it throws, or it
\* answers with a blank text or with a summary of that article
AnswerKinds == {"throws", "blank", "text"}

generateContent(article, kind) ==
    CASE kind = "throws" -> [ok |-> FALSE, text |-> UNDEF]
      [] kind = "blank" -> [ok |-> TRUE, text |-> "  "]
      [] kind = "text" -> [ok |-> TRUE, text |-> " Summary of " \o article.title \o " "]

RECURSIVE SummarizeLoopDropping(_, _, _)
\* a loop that pushes nothing for an article whose engine call throws
SummarizeLoopDropping(arts, kinds, summaries) ==
    IF arts = <<>> THEN summaries
    ELSE LET response == generateContent(Head(arts), Head(kinds))
         IN  SummarizeLoopDropping(Tail(arts), Tail(kinds),
                IF response.ok
                THEN Append(summaries, OrElse(TrimmedText(response.text), NoSummary))
                ELSE summaries)

RECURSIVE SummarizeLoop(_, _, _)
\* for (const article of articles) { try { ... summaries.push(summary) }
\*                                    catch { summaries.push(fallback) } }
SummarizeLoop(arts, kinds, summaries) ==
    IF arts = <<>> THEN summaries
    ELSE LET response == generateContent(Head(arts), Head(kinds))
         IN  SummarizeLoop(Tail(arts), Tail(kinds),
                Append(summaries,
                       IF response.ok
                       THEN OrElse(TrimmedText(response.text), NoSummary)
                       ELSE FallbackSummary))

\* GeminiService.summarizeArticles: the summaries it resolves to
summarizeArticles(request, kinds) == SummarizeLoop(request.articles, kinds, <<>>)

\* POST /api/summarize
PostSummarize(body, kinds) ==
    /\ IF ~ValidSummarizeRequest(body)
       THEN lastResp' = Response("summarize-batch", 500, ErrorBody("ZodError", {"body"}),
                                 body, 0, NotCalled, articles, articles)
       ELSE lastResp' = Response("summarize-batch", 200,
                                 [summaries |-> summarizeArticles(body, kinds)],
                                 body, Len(body.articles),
                                 [ok |-> TRUE, failure |-> "", kinds |-> kinds],
                                 articles, articles)
    /\ UNCHANGED <<articles, now, storeCall, topicCall, clients, engineDown, voiceCall, home, speech>>

\* articles of a summarize request; the last one lacks its content
BatchArticles ==
    { [title |-> "t1", content |-> "c1"],
      [title |-> "t2", content |-> ""],
      [title |-> "t3", content |-> UNDEF] }

SummarizeBodies ==
    [articles : SeqsUpTo(BatchArticles, MaxArticles),
     summaryLength : {UNDEF, "short", "huge"}]

\* the paths registerRoutes gives a POST handler
PostRoutes == {"/api/summarize", "/api/summarize-article/:id", "/api/preferences"}

\* what a request that matches no registered route is answered with by the
\* application around registerRoutes: the framework's 404, or the page a
\* catch-all serves
Unmatched == {[status |-> 404, body |-> [message |-> "Cannot POST"]],
              [status |-> 200, body |-> [page |-> "index.html"]]}

\* POST /api/topic-summary {topic}, as the client's generateTopicSummary sends it
PostTopicSummary(topic, unmatched) ==
    /\ "/api/topic-summary" \notin PostRoutes
    /\ lastResp' = Response("topic-summary", unmatched.status, unmatched.body,
                            [topic |-> topic], 0, NotCalled, articles, articles)
    /\ UNCHANGED <<articles, now, storeCall, topicCall, clients, engineDown, voiceCall, home, speech>>

Topics == {"inflation", "ai"}

NextBatch ==
    \/ \E body \in SummarizeBodies :
          \E kinds \in [1..Len(body.articles) -> AnswerKinds] :
              /\ ~ValidSummarizeRequest(body) => \A i \in DOMAIN kinds : kinds[i] = "throws"
              /\ PostSummarize(body, kinds)
    \/ \E topic \in Topics, unmatched \in Unmatched : PostTopicSummary(topic, unmatched)

SpecBatch == InitEngineUp /\ [][NextBatch]_vars

\* The scheduling the server guarantees: a handler whose awaited promise has
\* settled is resumed (the event loop runs its continuation).  The arrival of
\* a request and the answer of the provider or of the engine are up to the
\* client and to the external service: the code sets no timer on either call.
SpecLive == Spec /\ \A c \in Clients : WF_vars(SummarizeRespond(c))

----------------------------------------------------------------------------
(* useVoiceSearch: from a speech-recognition result to a search query *)

UpperCaseLetters == "ABCDEFGHIJKLMNOPQRSTUVWXYZ"
LowerCaseLetters == "abcdefghijklmnopqrstuvwxyz"

\* one character of String.prototype.toLowerCase
LowerChar(ch) ==
    IF \E i \in 1..Len(UpperCaseLetters) : SubSeq(UpperCaseLetters, i, i) = ch
    THEN LET i == CHOOSE i \in 1..Len(UpperCaseLetters) :
                     SubSeq(UpperCaseLetters, i, i) = ch
         IN  SubSeq(LowerCaseLetters, i, i)
    ELSE ch

RECURSIVE ToLowerCase(_)
\* String.prototype.toLowerCase
ToLowerCase(text) ==
    IF text = "" THEN ""
    ELSE LowerChar(SubSeq(text, 1, 1)) \o ToLowerCase(SubSeq(text, 2, Len(text)))

\* String.prototype.startsWith
StartsWith(text, prefix) ==
    /\ Len(text) >= Len(prefix)
    /\ SubSeq(text, 1, Len(prefix)) = prefix

\* String.prototype.substring(start), start counted from 0
Substring(text, start) ==
    IF start >= Len(text) THEN "" ELSE SubSeq(text, start + 1, Len(text))

prefixes == <<"search for", "find", "show me", "get", "look for", "filter">>

\* the index of the prefix at which the for loop breaks, 0 when it runs out
FirstPrefix(lowerCommand) ==
    IF \E i \in 1..Len(prefixes) : StartsWith(lowerCommand, prefixes[i])
    THEN CHOOSE i \in 1..Len(prefixes) :
            /\ StartsWith(lowerCommand, prefixes[i])
            /\ \A j \in 1..(i - 1) : ~StartsWith(lowerCommand, prefixes[j])
    ELSE 0

\* a command processing that cuts the remainder out of the lower-cased command
processVoiceCommandLowerCased(command) ==
    LET lowerCommand == ToLowerCase(command)
        i == FirstPrefix(lowerCommand)
    IN  IF i = 0 THEN command
        ELSE Trim(Substring(lowerCommand, Len(prefixes[i])))

\* processVoiceCommand: the searchQuery it arrives at
processVoiceCommand(command) ==
    LET lowerCommand == ToLowerCase(command)
        i == FirstPrefix(lowerCommand)
    IN  IF i = 0 THEN command
        ELSE Trim(Substring(command, Len(prefixes[i])))

\* an onResult that calls onSearch with whatever the command leaves
OnResultAlwaysSearching(transcript, isFinal) ==
    /\ IF isFinal /\ Trim(transcript) # ""
       THEN LET command == Trim(transcript)
                searchQuery == processVoiceCommand(command)
            IN  voiceCall' = [op |-> "result", transcript |-> transcript,
                              isFinal |-> isFinal, processed |-> TRUE,
                              searchQuery |-> searchQuery,
                              onSearch |-> <<searchQuery>>]
       ELSE voiceCall' = [op |-> "result", transcript |-> transcript,
                          isFinal |-> isFinal, processed |-> FALSE,
                          searchQuery |-> "", onSearch |-> <<>>]
    /\ UNCHANGED <<articles, now, storeCall, topicCall, clients, lastResp, engineDown,
                   home, speech>>

\* onResult of useSpeechRecognition as useVoiceSearch sets it: a final,
\* non-blank transcript is trimmed and processed, and onSearch is called
\* with a non-empty searchQuery
OnResult(transcript, isFinal) ==
    /\ IF isFinal /\ Trim(transcript) # ""
       THEN LET command == Trim(transcript)
                searchQuery == processVoiceCommand(command)
            IN  voiceCall' = [op |-> "result", transcript |-> transcript,
                              isFinal |-> isFinal, processed |-> TRUE,
                              searchQuery |-> searchQuery,
                              onSearch |-> IF searchQuery # ""
                                           THEN <<searchQuery>> ELSE <<>>]
       ELSE voiceCall' = [op |-> "result", transcript |-> transcript,
                          isFinal |-> isFinal, processed |-> FALSE,
                          searchQuery |-> "", onSearch |-> <<>>]
    /\ UNCHANGED <<articles, now, storeCall, topicCall, clients, lastResp, engineDown,
                   home, speech>>

\* transcripts: white space or none in front, a command word in some casing
\* or another word, and what follows it
Transcripts ==
    { lead \o head \o rest :
        lead \in {"", " "},
        head \in {"search for", "Search For", "find", "FIND", "Show me", "get",
                  "Look FOR", "Filter", "latest", "fin"},
        rest \in {"", " technology news from USA", " headlines", "ing AI ",
                  " Find get"} }

NextVoice ==
    \E transcript \in Transcripts, isFinal \in BOOLEAN : OnResult(transcript, isFinal)

SpecVoice == InitEngineUp /\ [][NextVoice]_vars

----------------------------------------------------------------------------
(* The client: NewsHeader's onSearch, Home's filters and its queryFn *)

\* value.toString() of the numbers the client sends
NumberToString(n) ==
    CASE n = 1 -> "1"
      [] n = 2 -> "2"
      [] n = 20 -> "20"

\* the state updates onSearch queued take effect: setSearchQuery(query) and
\* onFiltersChange({ ...filters, query }), which is Home's
\* setFilters({ ...newFilters, pageSize: 20, page: 1 })
ApplySearch ==
    /\ voiceCall.op = "result"
    /\ voiceCall.onSearch # <<>>
    /\ LET query == voiceCall.onSearch[1]
           newFilters == [home.filters EXCEPT !.query = query]
       IN  home' = [home EXCEPT !.searchQuery = query,
                                !.filters = [newFilters EXCEPT !.pageSize = 20, !.page = 1]]
    /\ UNCHANGED <<articles, now, storeCall, topicCall, clients, lastResp, engineDown,
                   voiceCall, speech>>

\* req.query of the request fetchNews and searchNews send: one parameter
\* per key of the filters whose value is neither undefined nor null
WireQuery(filters) ==
    [country |-> UNDEF, category |-> UNDEF, sources |-> NoSources, sortBy |-> UNDEF,
     q |-> filters.q, query |-> filters.query,
     pageSize |-> NumberToString(filters.pageSize),
     page |-> NumberToString(filters.page)]

\* Home's queryFn: searchNews when effectiveFilters.q is set, fetchNews otherwise
QueryFn ==
    /\ home' = [home EXCEPT !.request =
                    [route |-> IF Truthy(home.filters.q) THEN "search" ELSE "news",
                     query |-> WireQuery(home.filters),
                     filters |-> home.filters]]
    /\ UNCHANGED <<articles, now, storeCall, topicCall, clients, lastResp, engineDown,
                   voiceCall, speech>>

\* what is said to the page: a command word alone, a command, a phrase
\* without a command word, and silence
FewTranscripts == {"find", " Search for AI ", "latest news", "  "}

NextClient ==
    \/ \E transcript \in FewTranscripts, isFinal \in BOOLEAN : OnResult(transcript, isFinal)
    \/ ApplySearch
    \/ QueryFn
    \/ \E c \in Clients :
          /\ home.request # NoRequest
          /\ GetNews(c, home.request.route, home.request.query)
    \/ \E c \in Clients, response \in OneResponse : ProviderSucceeds(c, response)
    \/ \E c \in Clients, response \in FewResponses : ProviderFails(c, response)

SpecClient == InitEngineUp /\ [][NextClient]_vars

----------------------------------------------------------------------------
(* useSpeechRecognition: startListening, stopListening and the callbacks   *)
(* of the recognizers it makes.  A recognizer is "starting" from start()   *)
(* to its onstart, then "started", "stopping" once stop() was called on    *)
(* it, "errored" between its onerror and its onend, and "ended"; "failed"  *)
(* is a recognizer whose start() threw.  The hook's transcript state is    *)
(* what voiceCall holds of the last result.                                *)

\* the recognizer has been started and has not ended
Live(state) == state \in {"starting", "started", "stopping", "errored"}

\* startListening: returns when isListening, else makes a recognizer, sets
\* its callbacks and starts it; the catch sets isListening to false
StartListening(throws) ==
    /\ speech.isListening \/ Len(speech.sessions) < MaxSessions
    /\ IF speech.isListening
       THEN speech' = [speech EXCEPT !.last = "startListening"]
       ELSE speech' = [isListening |-> FALSE,
                       ref |-> Len(speech.sessions) + 1,
                       sessions |-> Append(speech.sessions,
                                           IF throws THEN "failed" ELSE "starting"),
                       last |-> "startListening"]
    /\ UNCHANGED <<articles, now, storeCall, topicCall, clients, lastResp, engineDown,
                   voiceCall, home>>

\* stopListening: recognitionRef.current.stop() if there is one and isListening
StopListening ==
    /\ IF speech.ref # 0 /\ speech.isListening
          /\ speech.sessions[speech.ref] \in {"starting", "started"}
       THEN speech' = [speech EXCEPT !.sessions[speech.ref] = "stopping",
                                     !.last = "stopListening"]
       ELSE speech' = [speech EXCEPT !.last = "stopListening"]
    /\ UNCHANGED <<articles, now, storeCall, topicCall, clients, lastResp, engineDown,
                   voiceCall, home>>

\* recognition.onstart of recognizer s: setIsListening(true)
OnStart(s) ==
    /\ speech.sessions[s] = "starting"
    /\ speech' = [speech EXCEPT !.sessions[s] = "started", !.isListening = TRUE,
                                !.last = "onstart"]
    /\ UNCHANGED <<articles, now, storeCall, topicCall, clients, lastResp, engineDown,
                   voiceCall, home>>

\* recognition.onerror of recognizer s: setIsListening(false)
OnError(s) ==
    /\ speech.sessions[s] \in {"starting", "started", "stopping"}
    /\ speech' = [speech EXCEPT !.sessions[s] = "errored", !.isListening = FALSE,
                                !.last = "onerror"]
    /\ UNCHANGED <<articles, now, storeCall, topicCall, clients, lastResp, engineDown,
                   voiceCall, home>>

\* recognition.onend of recognizer s: setIsListening(false)
OnEnd(s) ==
    /\ speech.sessions[s] \in {"started", "stopping", "errored"}
    /\ speech' = [speech EXCEPT !.sessions[s] = "ended", !.isListening = FALSE,
                                !.last = "onend"]
    /\ UNCHANGED <<articles, now, storeCall, topicCall, clients, lastResp, engineDown,
                   voiceCall, home>>

NextSpeech ==
    \/ \E throws \in BOOLEAN : StartListening(throws)
    \/ StopListening
    \/ \E s \in 1..Len(speech.sessions) : OnStart(s)
    \/ \E s \in 1..Len(speech.sessions), transcript \in FewTranscripts, isFinal \in BOOLEAN :
          /\ speech.sessions[s] \in {"started", "stopping"}
          /\ OnResult(transcript, isFinal)
    \/ \E s \in 1..Len(speech.sessions) : OnError(s)
    \/ \E s \in 1..Len(speech.sessions) : OnEnd(s)

SpecSpeech == InitEngineUp /\ [][NextSpeech]_vars

----------------------------------------------------------------------------
(* Claims about the store API, checked under SpecStore *)

\* the position in the store of a record a getArticles call returned
PositionOf(a) == CHOOSE k \in 1..Len(articles) : articles[k].val = a

\* the country and category filters of the last call, as the claim reads them
TagMatch(filters, a) ==
    /\ Truthy(filters.country) => a.country = filters.country
    /\ Truthy(filters.category) => a.category = filters.category

\* C9: getArticles with a country and/or a category filter (a non-empty
\* string; no source filter) returns exactly the stored records whose
\* country/category equals it, each once, newest publishedAt first, and
\* records of equal publishedAt in the order they were inserted.
C9_FilteredNewestFirstStable ==
    ( /\ storeCall.op = "getArticles"
      /\ storeCall.filters.sources = <<>>
      /\ Truthy(storeCall.filters.country) \/ Truthy(storeCall.filters.category) )
    => LET f == storeCall.filters
           res == storeCall.result
           stored == Values(articles)
       IN  /\ \A i \in 1..Len(res) : res[i] \in Range(stored) /\ TagMatch(f, res[i])
           /\ \A k \in 1..Len(stored) :
                 TagMatch(f, stored[k]) =>
                    Cardinality({i \in 1..Len(res) : res[i] = stored[k]}) = 1
           /\ Len(res) = Cardinality({k \in 1..Len(stored) : TagMatch(f, stored[k])})
           /\ \A i, j \in 1..Len(res) :
                 i < j => /\ res[i].publishedAt >= res[j].publishedAt
                          /\ res[i].publishedAt = res[j].publishedAt
                                => PositionOf(res[i]) < PositionOf(res[j])

\* C9 witness: a country filter that drops a stored record and keeps two
\* records of equal publishedAt.
C9_Witness ==
    /\ storeCall.op = "getArticles"
    /\ storeCall.filters.sources = <<>>
    /\ Truthy(storeCall.filters.country)
    /\ Len(storeCall.result) < Len(articles)
    /\ \E i, j \in 1..Len(storeCall.result) :
          /\ i < j
          /\ storeCall.result[i].publishedAt = storeCall.result[j].publishedAt

\* C10: getArticles with a non-empty sources filter (and no other filter)
\* returns a record if and only if the sources contain the record's
\* source.name or its source.id.
C10_SourcesMatchNameOrId ==
    ( /\ storeCall.op = "getArticles"
      /\ Len(storeCall.filters.sources) > 0
      /\ ~Truthy(storeCall.filters.country)
      /\ ~Truthy(storeCall.filters.category) )
    => \A k \in 1..Len(articles) :
          LET a == articles[k].val
          IN  (a \in Range(storeCall.result))
                 <=> ( \/ Includes(storeCall.filters.sources, a.source.name)
                       \/ Includes(storeCall.filters.sources, a.source.id) )

----------------------------------------------------------------------------
(* Claims about generateTopicSummary, checked under SpecTopic *)

\* C3: whatever the articles and whether the engine answers or throws,
\* generateTopicSummary returns one source link per input article, in input
\* order, link i being the title and url of article i and its source name,
\* or "Unknown Source" when the article has no (or an empty) source name.
C3_SourceLinksForEveryArticle ==
    topicCall.op = "topic"
    => LET arts == topicCall.articles
           links == topicCall.result.sourceLinks
       IN  /\ Len(links) = Len(arts)
           /\ \A i \in 1..Len(arts) :
                 /\ links[i].title = arts[i].title
                 /\ links[i].url = arts[i].url
                 /\ links[i].source =
                       IF arts[i].source.name \in {UNDEF, NULL, ""}
                       THEN "Unknown Source"
                       ELSE arts[i].source.name

\* C3 witness: the engine threw on a batch of several articles, one of them
\* without a source name, and the links came back all the same.
C3_Witness ==
    /\ topicCall.op = "topic"
    /\ ~topicCall.outcome.ok
    /\ Len(topicCall.articles) >= 2
    /\ topicCall.articles[1].source.name # topicCall.articles[2].source.name
    /\ \E i \in 1..Len(topicCall.articles) : topicCall.articles[i].source.name = UNDEF
    /\ Len(topicCall.result.sourceLinks) = Len(topicCall.articles)

----------------------------------------------------------------------------
(* Claims about POST /api/summarize-article/:id, checked under Spec *)

IdsOf(store) == {store[k].val.id : k \in 1..Len(store)}

\* the last response answers a summarize request
Summarized == lastResp.route = "summarize"

\* C1: while the engine throws on every call, every summarize request for a
\* known id is answered 200 with the summary "Summary unavailable due to
\* processing error", the stored article's aiSummary is that string, and no
\* stored aiSummary is ever anything else, however often the call is repeated.
C1_FallbackWhenEngineFails ==
    engineDown
    => /\ \A k \in 1..Len(articles) :
             articles[k].val.aiSummary \in {NULL, FallbackSummary}
       /\ \A c \in Clients :
             clients[c].pc = "respond" => clients[c].summary = FallbackSummary
       /\ (Summarized /\ lastResp.request \in IdsOf(lastResp.before))
             => /\ lastResp.status = 200
                /\ lastResp.body.summary = "Summary unavailable due to processing error"
                /\ lastResp.body.article.aiSummary = lastResp.body.summary
                /\ lastResp.body.article.id = lastResp.request
                /\ \E k \in 1..Len(articles) :
                      /\ articles[k].key = lastResp.request
                      /\ articles[k].val.aiSummary = lastResp.body.summary

\* C1 witness: the engine is down, a summarize call on an article was
\* answered with the fallback text, and one more call on the same article
\* has stored its summary too.
C1_Witness ==
    /\ engineDown
    /\ Summarized
    /\ lastResp.status = 200
    /\ lastResp.body.summary = FallbackSummary
    /\ \E c \in Clients :
          /\ clients[c].pc = "respond"
          /\ clients[c].id = lastResp.request
    /\ articles[Get(articles, lastResp.request)].val.aiSummary = FallbackSummary

\* C2: a summarize request for an id that no stored article has is answered
\* 404 without an engine call and leaves the store as it was; no engine call
\* is ever in flight for an id that is not in the store.
C2_UnknownIdNotFound ==
    /\ (Summarized /\ lastResp.request \notin IdsOf(lastResp.before))
          => /\ lastResp.status = 404
             /\ lastResp.calls = 0
             /\ lastResp.after = lastResp.before
    /\ \A c \in Clients :
          clients[c].pc = "engine" => clients[c].id \in IdsOf(articles)

\* C2 witness: a 404 was sent for an unknown id while the store held records.
C2_Witness ==
    /\ Summarized
    /\ lastResp.status = 404
    /\ lastResp.request \notin IdsOf(articles)
    /\ Len(articles) > 0

\* C14: every 200 response of a summarize request carries an article whose
\* aiSummary is the summary it carries and whose id is the requested one,
\* whatever the engine answered and whatever other requests did meanwhile.
C14_ArticleMatchesSummary ==
    (Summarized /\ lastResp.status = 200)
    => /\ lastResp.body.article.aiSummary = lastResp.body.summary
       /\ lastResp.body.article.id = lastResp.request
       /\ lastResp.body.summary
             \in {summarizeArticle(outcome) : outcome \in EngineOutcomes}

\* C14 witness: a summarize request was answered after another call on the
\* same id had stored a different summary.
C14_Witness ==
    /\ Summarized
    /\ lastResp.status = 200
    /\ lastResp.body.article.aiSummary = lastResp.body.summary
    /\ articles[Get(articles, lastResp.request)].val.aiSummary # lastResp.body.summary

\* C15: in every step, the store keeps its entries and their keys; a stored
\* record changes only by a summarize call applying its update, and then
\* only in its aiSummary, which becomes that call's summary; every update a
\* summarize call makes is in the store when the step ends.  So the stored
\* summary is always the one of the update applied last, and no fetch
\* erases or reverts it.
C15_NoLostUpdate ==
    [][ /\ Len(articles') >= Len(articles)
        /\ \A k \in 1..Len(articles) :
              /\ articles'[k].key = articles[k].key
              /\ articles'[k].val # articles[k].val
                    => \E c \in Clients :
                          /\ clients[c].pc = "engine"
                          /\ clients'[c].pc = "respond"
                          /\ clients[c].id = articles[k].key
                          /\ articles'[k].val =
                                [articles[k].val EXCEPT !.aiSummary = clients'[c].summary]
        /\ \A c \in Clients :
              (clients[c].pc = "engine" /\ clients'[c].pc = "respond")
              => articles'[Get(articles', clients[c].id)].val.aiSummary
                    = clients'[c].summary ]_vars

\* C15 witness: two summarize calls on one id raced, with fetched records
\* around: one has stored its summary and waits to answer, the other stored
\* a different summary after it and was answered.
C15_Witness ==
    /\ Len(articles) >= 2
    /\ Summarized
    /\ lastResp.status = 200
    /\ articles[Get(articles, lastResp.request)].val.aiSummary = lastResp.body.summary
    /\ \E c \in Clients :
          /\ clients[c].pc = "respond"
          /\ clients[c].id = lastResp.request
          /\ clients[c].summary # lastResp.body.summary

----------------------------------------------------------------------------
(* Claims about GET /api/news and GET /api/news/search, checked under SpecNews *)

\* the last response answers a news or a search request
Fetched == lastResp.route \in Routes

\* C4: when the provider call fails, the request is answered with an error
\* carrying the failure, the provider was called once for it, and the store
\* holds what it held.
C4_ProviderFailureSurfaces ==
    (Fetched /\ lastResp.calls > 0 /\ ~lastResp.upstream.ok)
    => /\ lastResp.status >= 400
       /\ lastResp.body.message.text = lastResp.upstream.failure
       /\ lastResp.calls = 1
       /\ articles = lastResp.before

\* C4 witness: a provider failure was reported while the store held records.
C4_Witness ==
    /\ Fetched
    /\ lastResp.status = 500
    /\ lastResp.calls = 1
    /\ lastResp.body.message.text = "News API error (401)"
    /\ Len(articles) > 0

\* the queries the claim speaks of: a pageSize outside 1..100, a page below 1,
\* a sortBy that is none of the three
OutOfRange(query) ==
    \/ /\ query.pageSize # UNDEF
       /\ ~Number(query.pageSize).nan
       /\ Number(query.pageSize).n < 1 \/ Number(query.pageSize).n > 100
    \/ /\ query.page # UNDEF
       /\ ~Number(query.page).nan
       /\ Number(query.page).n < 1
    \/ query.sortBy \notin {UNDEF, "relevancy", "popularity", "publishedAt"}

\* C5: a request whose pageSize is outside 1..100, whose page is below 1 or
\* whose sortBy is unknown is answered with an error, without a provider call
\* and without a write to the store; no provider call is ever in flight for
\* such a request.
C5_OutOfRangeRejected ==
    /\ (Fetched /\ OutOfRange(lastResp.request))
          => /\ lastResp.status >= 400
             /\ lastResp.calls = 0
             /\ articles = lastResp.before
    /\ \A c \in Clients :
          clients[c].pc = "provider" => ~OutOfRange(clients[c].query)

\* C5 witness: a request with pageSize 101 was rejected while the store held records.
C5_Witness ==
    /\ Fetched
    /\ lastResp.status >= 400
    /\ lastResp.request.pageSize = "101"
    /\ lastResp.body.message.issues = {"pageSize"}
    /\ Len(articles) > 0

\* C6: a filter validation failure is answered with the BadRequest kind
\* (status 400), which is not the kind (500) a provider failure is answered with.
C6_ValidationIsBadRequest ==
    (Fetched /\ lastResp.calls = 0 /\ lastResp.status >= 400)
    => /\ lastResp.status = 400
       /\ lastResp.status # 500

\* a provider request that carries a non-empty sources parameter
HasSources(params) ==
    /\ params.sources.set
    /\ \E i \in 1..Len(params.sources.items) : params.sources.items[i] # ""

\* C7: every headlines request in flight carries a country or a non-empty
\* sources parameter, the country being the default "us" exactly when the
\* filter gave neither; every search request carries a q or a non-empty
\* sources parameter, q being the fallback term exactly when the filter gave
\* neither.
C7_NoUnconstrainedRequest ==
    \A c \in Clients :
        clients[c].pc = "provider"
        => LET params == clients[c].params
               filters == clients[c].filters
               noSources == ~filters.sources.given \/ filters.sources.items = <<>>
           IN  IF clients[c].route = "news"
               THEN /\ Truthy(params.country) \/ HasSources(params)
                    /\ (~Truthy(filters.country) /\ params.country = "us")
                          <=> (~Truthy(filters.country) /\ noSources)
               ELSE /\ Truthy(params.q) \/ HasSources(params)
                    /\ (~Truthy(filters.q) /\ params.q = "technology")
                          <=> (~Truthy(filters.q) /\ noSources)

\* C8: a successful request is answered with the provider's totalResults and
\* with one record per provider article, in the provider's order, the i-th
\* being the record made from the i-th provider article and appended i-th to
\* the store; an empty provider result gives totalResults 0 and no articles.
C8_ResponseMirrorsProvider ==
    (Fetched /\ lastResp.calls > 0 /\ lastResp.upstream.ok)
    => LET body == lastResp.body
           response == lastResp.upstream
           n == Len(response.articles)
           had == Len(lastResp.before)
       IN  /\ lastResp.status = 200
           /\ body.status = response.status
           /\ body.totalResults = response.totalResults
           /\ Len(body.articles) = n
           /\ Len(articles) = had + n
           /\ SubSeq(articles, 1, had) = lastResp.before
           /\ \A i \in 1..n :
                 /\ body.articles[i] = articles[had + i].val
                 /\ body.articles[i].title = response.articles[i].title
                 /\ body.articles[i].url = response.articles[i].url
                 /\ body.articles[i].source = response.articles[i].source
                 /\ body.articles[i].publishedAt
                       = ParseDate(response.articles[i].publishedAt)
           /\ (n = 0 /\ response.totalResults = 0)
                 => (body.totalResults = 0 /\ body.articles = <<>>)

\* C8 witness: a response with two different articles, fewer than the
\* provider's total.
C8_Witness ==
    /\ Fetched
    /\ lastResp.status = 200
    /\ Len(lastResp.body.articles) = 2
    /\ lastResp.body.articles[1].title # lastResp.body.articles[2].title
    /\ lastResp.body.totalResults > Len(lastResp.body.articles)

----------------------------------------------------------------------------
(* Claims about updateArticle, checked under SpecUpdate *)

\* the last store call is an updateArticle
Updated == storeCall.op = "update"

\* C11: updateArticle on an id the store lacks fails with "not found" and
\* leaves the store as it was; on a known id it returns the existing record
\* with exactly the fields of the partial replaced, and the store holds that
\* record under the same id, every other entry being untouched.
C11_UpdateMergesOrNotFound ==
    Updated
    => LET before == storeCall.before
           id == storeCall.id
           updates == storeCall.updates
       IN  IF id \notin Keys(before)
           THEN /\ storeCall.error = "not found"
                /\ articles = before
           ELSE LET i == Get(before, id)
                    existing == before[i].val
                IN  /\ storeCall.error = ""
                    /\ DOMAIN storeCall.result = DOMAIN existing
                    /\ \A f \in DOMAIN existing :
                          storeCall.result[f] =
                             IF f \in DOMAIN updates THEN updates[f] ELSE existing[f]
                    /\ Len(articles) = Len(before)
                    /\ articles[i] = [key |-> id, val |-> storeCall.result]
                    /\ \A k \in 1..Len(before) : k # i => articles[k] = before[k]

\* C11 witness: an update of one of several records changed that record.
C11_Witness ==
    /\ Updated
    /\ storeCall.error = ""
    /\ Len(articles) >= 2
    /\ storeCall.result # storeCall.before[Get(storeCall.before, storeCall.id)].val
    /\ articles[Get(articles, storeCall.id)].val = storeCall.result

\* C12: after updateArticle(id, {aiSummary}) the store holds one entry for
\* the id, as many entries as before, and that entry's aiSummary is the one
\* just given, whatever summary the record carried.
C12_SummaryOverwritten ==
    (Updated /\ storeCall.error = "" /\ DOMAIN storeCall.updates = {"aiSummary"})
    => /\ Len(articles) = Len(storeCall.before)
       /\ Cardinality({k \in 1..Len(articles) : articles[k].key = storeCall.id}) = 1
       /\ articles[Get(articles, storeCall.id)].val.aiSummary
             = storeCall.updates.aiSummary
       /\ storeCall.result.aiSummary = storeCall.updates.aiSummary

\* C12 witness: a record whose aiSummary was "X" was updated with "Y".
C12_Witness ==
    /\ Updated
    /\ storeCall.error = ""
    /\ storeCall.updates = [aiSummary |-> "Y"]
    /\ storeCall.before[Get(storeCall.before, storeCall.id)].val.aiSummary = "X"
    /\ articles[Get(articles, storeCall.id)].val.aiSummary = "Y"

\* C13: every record is stored under its own id, no two records share an id,
\* and an update (with any partial) leaves every record's id and createdAt
\* as they were and never takes a present aiSummary away.
C13_IdentityAndSummaryKept ==
    /\ \A k \in 1..Len(articles) : articles[k].val.id = articles[k].key
    /\ \A j, k \in 1..Len(articles) :
          j # k => articles[j].val.id # articles[k].val.id
    /\ (Updated /\ storeCall.error = "")
          => \A k \in 1..Len(storeCall.before) :
                /\ articles[k].val.id = storeCall.before[k].val.id
                /\ articles[k].val.createdAt = storeCall.before[k].val.createdAt
                /\ storeCall.before[k].val.aiSummary # NULL
                      => articles[k].val.aiSummary # NULL

----------------------------------------------------------------------------
(* Claims about what awaits an external service, checked under SpecLive *)

\* the handler of client c awaits the provider or the engine
Awaiting(c) == clients[c].pc \in {"provider", "engine"}

\* C16: a request that awaits the provider or the engine is eventually
\* answered, also when the external service never responds: the wait is
\* bounded by a timeout.
C16_CallsAreBounded ==
    \A c \in Clients : Awaiting(c) ~> ~Awaiting(c)

----------------------------------------------------------------------------
(* Claims about useVoiceSearch, checked under SpecVoice *)

RECURSIVE Spaces(_)
\* a string of n spaces
Spaces(n) == IF n = 0 THEN "" ELSE " " \o Spaces(n - 1)

\* text neither begins nor ends with a space
Trimmed(text) ==
    text = "" \/ (SubSeq(text, 1, 1) # " " /\ SubSeq(text, Len(text), Len(text)) # " ")

\* the phrase a transcript carries: the transcript without the white space around it
PhraseOf(transcript) ==
    CHOOSE phrase \in {SubSeq(transcript, i, j) : i \in 1..(Len(transcript) + 1),
                                                   j \in 0..Len(transcript)} :
        /\ Trimmed(phrase)
        /\ \E a, b \in 0..Len(transcript) : Spaces(a) \o phrase \o Spaces(b) = transcript

\* the prefixes that match the phrase at its start, whatever the case
Matching(phrase) ==
    {i \in 1..Len(prefixes) :
        /\ Len(phrase) >= Len(prefixes[i])
        /\ ToLowerCase(SubSeq(phrase, 1, Len(prefixes[i]))) = prefixes[i]}

\* C17: for every final transcript with a phrase in it, the query is the
\* phrase with the first matching prefix of the list, in whatever case it was
\* spoken, taken off its start and the white space around the remainder
\* removed, the remainder keeping its case; when no prefix matches, the query
\* is the phrase.  "Show me technology news from USA" gives "technology news
\* from USA" and "latest headlines" gives "latest headlines".
C17_PrefixStripped ==
    (voiceCall.op = "result" /\ voiceCall.processed)
    => LET phrase == PhraseOf(voiceCall.transcript)
           query == voiceCall.searchQuery
       IN  /\ IF Matching(phrase) = {}
              THEN query = phrase
              ELSE LET first == CHOOSE i \in Matching(phrase) :
                                   \A j \in Matching(phrase) : i <= j
                       spoken == SubSeq(phrase, 1, Len(prefixes[first]))
                   IN  /\ Trimmed(query)
                       /\ \E a, b \in 0..Len(phrase) :
                             spoken \o Spaces(a) \o query \o Spaces(b) = phrase
           /\ voiceCall.transcript = "Show me technology news from USA"
                 => query = "technology news from USA"
           /\ voiceCall.transcript = "latest headlines" => query = "latest headlines"

\* C17 witness: a prefix spoken in capitals, in a transcript with white space
\* in front, was taken off a remainder that holds capitals and another prefix.
C17_Witness ==
    /\ voiceCall.op = "result"
    /\ voiceCall.processed
    /\ voiceCall.transcript = " Look FOR Find get"
    /\ voiceCall.searchQuery = "Find get"

----------------------------------------------------------------------------
(* Claims about POST /api/summarize, checked under SpecBatch *)

\* C18: a valid summarize request is answered with one summary per article,
\* in the order of the articles: the engine's trimmed text for the article,
\* "Unable to generate summary" when that text is blank, and "Summary
\* unavailable due to processing error" when the engine threw on that
\* article, whatever the engine did on the other articles.
C18_OneSummaryPerArticle ==
    (lastResp.route = "summarize-batch" /\ ValidSummarizeRequest(lastResp.request))
    => LET arts == lastResp.request.articles
           kinds == lastResp.upstream.kinds
           summaries == lastResp.body.summaries
       IN  /\ lastResp.status = 200
           /\ Len(summaries) = Len(arts)
           /\ \A i \in 1..Len(arts) :
                 summaries[i] =
                    CASE kinds[i] = "throws" -> "Summary unavailable due to processing error"
                      [] kinds[i] = "blank" -> "Unable to generate summary"
                      [] kinds[i] = "text" -> "Summary of " \o arts[i].title

\* C18 witness: the engine threw on the first of two articles and summarized
\* the second.
C18_Witness ==
    /\ lastResp.route = "summarize-batch"
    /\ lastResp.status = 200
    /\ Len(lastResp.request.articles) = 2
    /\ lastResp.upstream.kinds = <<"throws", "text">>
    /\ lastResp.body.summaries = <<FallbackSummary, "Summary of t2">>

\* C19: a POST topic-summary request carrying a topic is answered with a
\* TopicSummaryResult whose topic is the requested topic and whose
\* articlesAnalyzed does not exceed totalArticles.
C19_TopicSummaryAnswered ==
    lastResp.route = "topic-summary"
    => /\ lastResp.status = 200
       /\ DOMAIN lastResp.body = {"topic", "totalArticles", "articlesAnalyzed",
                                  "summary", "sourceLinks", "lastUpdated"}
       /\ lastResp.body.topic = lastResp.request.topic
       /\ lastResp.body.articlesAnalyzed <= lastResp.body.totalArticles

----------------------------------------------------------------------------
(* Claims about malformed provider items, checked under SpecMalformed *)

\* C20: when the provider's response holds an item that cannot be
\* normalized, GET /api/news and GET /api/news/search still answer 200: the
\* item is skipped, and every other item of the response is persisted and
\* returned, in the provider's order.
C20_MalformedItemSkipped ==
    (lastResp.route \in Routes /\ lastResp.upstream.ok)
    => LET good == WellFormed(lastResp.upstream.articles)
       IN  /\ lastResp.status = 200
           /\ Len(lastResp.body.articles) = Len(good)
           /\ \A i \in 1..Len(good) :
                 /\ lastResp.body.articles[i].title = good[i].title
                 /\ lastResp.body.articles[i].url = good[i].url
           /\ Values(lastResp.after) = Values(lastResp.before) \o lastResp.body.articles

----------------------------------------------------------------------------
(* Claims about POST /api/summarize-article/:id and the engine's blank     *)
(* responses, checked under SpecSummarize                                  *)

\* the engine answered, with no text or with white space only
BlankAnswer(outcome) ==
    /\ outcome.ok
    /\ outcome.text = UNDEF \/ Trim(outcome.text) = ""

\* the last response answers a summarize request whose engine call came
\* back blank
AnsweredBlank ==
    /\ Summarized
    /\ lastResp.status = 200
    /\ BlankAnswer(lastResp.upstream.engine)

\* C21 as stated: when the engine's response is empty or white space only,
\* the summary returned and the aiSummary stored are "Summary unavailable due
\* to processing error", the string used when the engine throws.
C21_EmptyResponseIsFailure ==
    AnsweredBlank
    => /\ lastResp.body.summary = "Summary unavailable due to processing error"
       /\ lastResp.body.article.aiSummary = "Summary unavailable due to processing error"

\* C21 amended: when the engine's response is empty or white space only, the
\* summary returned and the aiSummary stored are the fixed string "Unable to
\* generate summary"; the string "Summary unavailable due to processing
\* error" is used only when the engine call throws.
C21_EmptyResponseOwnText ==
    /\ AnsweredBlank
       => /\ lastResp.body.summary = "Unable to generate summary"
          /\ lastResp.body.article.aiSummary = "Unable to generate summary"
    /\ (Summarized /\ lastResp.status = 200)
       => (lastResp.body.summary = "Summary unavailable due to processing error"
             <=> ~lastResp.upstream.engine.ok)

\* C21 witness: the engine answered with white space only and the request was
\* answered 200 with "Unable to generate summary" in the summary and in the
\* article.
C21_Witness ==
    /\ Summarized
    /\ lastResp.status = 200
    /\ lastResp.upstream.engine = [ok |-> TRUE, text |-> "  "]
    /\ lastResp.body.summary = NoSummary
    /\ lastResp.body.article.aiSummary = NoSummary

\* a step of client c's summarize handler: it starts, stores or answers
SummarizeStep(c) ==
    /\ clients'[c] # clients[c]
    /\ clients[c].pc \in {"engine", "respond"} \/ clients'[c].pc = "engine"

\* C28: a summarize handler for a stored id X changes nothing in the store
\* but the aiSummary of record X: across each of its steps the store keeps
\* its length and its keys, every record but X is the same, and X is the
\* same in every field but aiSummary.
C28_OnlySummaryChanges ==
    [][ \A c \in Clients :
          SummarizeStep(c)
          => LET id == IF clients[c].pc = "idle" THEN clients'[c].id ELSE clients[c].id
             IN  /\ Len(articles') = Len(articles)
                 /\ \A k \in 1..Len(articles) :
                       /\ articles'[k].key = articles[k].key
                       /\ articles[k].key # id => articles'[k] = articles[k]
                       /\ articles'[k].val =
                             [articles[k].val EXCEPT !.aiSummary = articles'[k].val.aiSummary]
                       /\ clients[c].pc # "engine" => articles'[k] = articles[k] ]_vars

\* C28 witness: a summarize call on the first of two records has stored its
\* summary; the second record has none.
C28_Witness ==
    /\ Len(articles) = 2
    /\ \E c \in Clients :
          /\ clients[c].pc = "respond"
          /\ clients[c].id = articles[1].key
          /\ articles[1].val.aiSummary = clients[c].summary
    /\ articles[2].val.aiSummary = NULL
    /\ articles[1].val.title = articles[2].val.title

----------------------------------------------------------------------------
(* Claims about the records GET /api/news and GET /api/news/search         *)
(* persist, checked under SpecNews                                         *)

\* the tag a request parameter gives a record: the parameter, or null when
\* the request has none or an empty one
TagOf(param) == IF param \in {UNDEF, ""} THEN NULL ELSE param

\* the last response answers a fetch or a search that went through
Persisted == Fetched /\ lastResp.status = 200

\* C22: every record a fetch or a search persists has the category and the
\* country of the request's filter, null when the request names none, and a
\* null aiSummary; what was sent to the provider (the default country "us")
\* and what it answered do not show in them.
C22_TagsFromRequest ==
    Persisted
    => /\ Values(lastResp.after) = Values(lastResp.before) \o lastResp.body.articles
       /\ \A i \in 1..Len(lastResp.body.articles) :
             /\ lastResp.body.articles[i].category = TagOf(lastResp.request.category)
             /\ lastResp.body.articles[i].country = TagOf(lastResp.request.country)
             /\ lastResp.body.articles[i].aiSummary = NULL

\* C22 witnesses: a request with country and category persisted a record
\* with both, and a request without them persisted a record with neither.
C22_Witness ==
    /\ Persisted
    /\ Len(lastResp.body.articles) > 0
    /\ lastResp.request.country = "gb"
    /\ lastResp.body.articles[1].country = "gb"
    /\ lastResp.body.articles[1].category = "tech"
    /\ \E k \in 1..Len(lastResp.before) :
          /\ lastResp.before[k].val.country = NULL
          /\ lastResp.before[k].val.category = NULL

\* C23: an answered fetch or search adds one record per article of the
\* provider's response, in the response's order, each under an id no record
\* had before, also when an article's url is the url of a stored record or of
\* another article of the response; the records stored before stay as they
\* were.
C23_OneRecordPerArticle ==
    Persisted
    => LET before == lastResp.before
           after == lastResp.after
           sent == lastResp.upstream.articles
       IN  /\ Len(after) = Len(before) + Len(sent)
           /\ SubSeq(after, 1, Len(before)) = before
           /\ \A i \in 1..Len(sent) :
                 LET new == after[Len(before) + i]
                 IN  /\ new.val.url = sent[i].url
                     /\ new.val.title = sent[i].title
                     /\ new.val.id = new.key
                     /\ new.key \notin Keys(before)
                     /\ \A j \in 1..Len(sent) :
                           j # i => after[Len(before) + j].key # new.key

\* C23 witness: a fetch stored an article whose url a stored record already
\* had, and both records are in the store.
C23_Witness ==
    /\ Persisted
    /\ Len(lastResp.before) = 1
    /\ Len(lastResp.after) = 2
    /\ lastResp.after[1].val.url = lastResp.after[2].val.url
    /\ lastResp.after[1].key # lastResp.after[2].key

\* C24: when the request's filter has no pageSize or no page, the request
\* issued to the provider carries pageSize 20 and page 1 in their place.
C24_PagingDefaults ==
    \A c \in Clients :
        clients[c].pc = "provider"
        => /\ ~clients[c].filters.pageSize.given
                => clients[c].params.pageSize = [set |-> TRUE, n |-> 20]
           /\ ~clients[c].filters.page.given
                => clients[c].params.page = [set |-> TRUE, n |-> 1]

----------------------------------------------------------------------------
(* Claims about batch summarization, checked under SpecTopic *)

\* C25: generateTopicSummary calls the engine once, however many articles it
\* is given, and when that call throws it returns a result whose summary is
\* the fixed string "Unable to generate topic summary due to processing
\* error"; when the engine answers, the summary is another text.
C25_OneEngineCall ==
    topicCall.op = "topic"
    => /\ topicCall.engineCalls = 1
       /\ "summary" \in DOMAIN topicCall.result
       /\ topicCall.result.summary = "Unable to generate topic summary due to processing error"
             <=> ~topicCall.outcome.ok

\* C25 witness: the engine threw on a batch of three articles and the
\* fallback summary came back after one call.
C25_Witness ==
    /\ topicCall.op = "topic"
    /\ Len(topicCall.articles) = 3
    /\ ~topicCall.outcome.ok
    /\ topicCall.engineCalls = 1
    /\ topicCall.result.summary = TopicFallback

----------------------------------------------------------------------------
(* Claims about headlines fetched without a country, checked under SpecTagged *)

\* the request names neither a country nor sources
Untagged(query) == ~Truthy(query.country) /\ query.sources.form = "none"

\* C29: a headlines request that names neither country nor sources is sent
\* to the provider with country "us", the records it persists have a null
\* country, and getArticles({country: "us"}) returns none of them: it
\* returns no record whose country is null.
C29_DefaultCountryNotStored ==
    /\ \A c \in Clients :
          (clients[c].pc = "provider" /\ clients[c].route = "news"
              /\ Untagged(clients[c].query))
          => clients[c].params.country = "us"
    /\ (Persisted /\ lastResp.route = "news" /\ Untagged(lastResp.request))
          => \A i \in 1..Len(lastResp.body.articles) :
                /\ lastResp.body.articles[i].country = NULL
                /\ \E k \in 1..Len(articles) :
                      articles[k].val = lastResp.body.articles[i]
    /\ (storeCall.op = "getArticles" /\ storeCall.filters.country = "us")
          => \A i \in 1..Len(storeCall.result) : storeCall.result[i].country # NULL

\* C29 witness: a headlines request without country or sources persisted
\* records, and a getArticles({country: "us"}) after it returned nothing.
C29_Witness ==
    /\ Persisted
    /\ lastResp.route = "news"
    /\ Untagged(lastResp.request)
    /\ Len(lastResp.body.articles) > 0
    /\ Values(articles) = lastResp.body.articles
    /\ storeCall.op = "getArticles"
    /\ storeCall.filters.country = "us"
    /\ storeCall.result = <<>>

----------------------------------------------------------------------------
(* Claims about the voice query on its way to the provider, checked under  *)
(* SpecClient                                                              *)

\* C26: onSearch is called only on a final transcript, with the non-empty
\* query that processVoiceCommand made of it; when stripping the command
\* word leaves nothing, onSearch is not called, and the filters' query is
\* never set to the empty string.
C26_NoEmptyQuery ==
    /\ voiceCall.op = "result"
       => /\ voiceCall.onSearch # <<>>
                => /\ voiceCall.isFinal
                   /\ voiceCall.onSearch[1] # ""
                   /\ voiceCall.onSearch[1] = processVoiceCommand(Trim(voiceCall.transcript))
          /\ (voiceCall.processed /\ voiceCall.searchQuery = "") => voiceCall.onSearch = <<>>
    /\ home.filters.query # ""
    /\ home.request # NoRequest => home.request.filters.query # ""

\* C26 witness: "find" alone was heard as a final transcript while the
\* filters held the query of an earlier command; onSearch was not called and
\* the query is still there.
C26_Witness ==
    /\ voiceCall.op = "result"
    /\ voiceCall.transcript = "find"
    /\ voiceCall.isFinal
    /\ voiceCall.processed
    /\ voiceCall.searchQuery = ""
    /\ voiceCall.onSearch = <<>>
    /\ home.filters.query = "AI"

\* C27: once the query of a final transcript is in Home's filters, the
\* request Home issues is a search carrying it, and it is the q of the
\* provider call made for that request.
C27_VoiceQueryReachesProvider ==
    (home.request # NoRequest /\ Truthy(home.request.filters.query))
    => /\ home.request.route = "search"
       /\ home.request.query.q = home.request.filters.query
       /\ \A c \in Clients :
             (clients[c].pc = "provider" /\ clients[c].query = home.request.query)
             => clients[c].params.q = home.request.filters.query

----------------------------------------------------------------------------
(* Claims about useSpeechRecognition, checked under SpecSpeech *)

\* the recognizers that have been started and have not ended
LiveSessions == {s \in 1..Len(speech.sessions) : Live(speech.sessions[s])}

\* C30: at most one recognizer is live at any time, whatever the order of
\* startListening, stopListening and the recognizers' callbacks (a
\* startListening before the onstart of a started recognizer makes no second
\* one), and isListening is false after every onerror and every onend.
C30_OneSession ==
    /\ Cardinality(LiveSessions) <= 1
    /\ speech.last \in {"onerror", "onend"} => ~speech.isListening

====
